---- MODULE Spec2Model ----
(***************************************************************************)
(* Model of email_triage.py: the EmailTriageSystem class.                  *)
(*                                                                         *)
(* A Python str is modelled as a sequence of one-character strings, so     *)
(* that lower(), the `in` operator, split('.'), slicing and the regular    *)
(* expression of extract_keywords are computed character by character.     *)
(* An ASCII character is written as itself, any other as its code point    *)
(* ("U+00E9").  The alphabet is ASCII and the code points named in the     *)
(* tables below; the tables give, for these, what Python's Unicode         *)
(* database gives: the word characters of \w, the lowercase mapping, the   *)
(* Cased and Case_Ignorable properties, the surrogates.                    *)
(* A text with a surrogate cannot be encoded as UTF-8: writing it to a     *)
(* file opened with encoding='utf-8' raises UnicodeEncodeError, and so     *)
(* does printing it when the standard output's error handler is strict,    *)
(* which is the environment's choice.                                      *)
(***************************************************************************)
EXTENDS Integers, Sequences, FiniteSets, TLC

VARIABLES
    processed_emails,   \* self.processed_emails: the list of processed records
    csvfile,            \* content of email_triage_log.csv on disk
    jsonfile,           \* content of email_triage_log.json on disk
    ret,                \* outcome of the last call: its return value or the exception raised
    raw_inputs,         \* history: the RawEmail of every record appended, in order
    clock_reads         \* history: the datetime.now() reading of every record appended

vars == <<processed_emails, csvfile, jsonfile, ret, raw_inputs, clock_reads>>

(***************************************************************************)
(* Characters.                                                             *)
(***************************************************************************)
LowerAlpha == <<"a","b","c","d","e","f","g","h","i","j","k","l","m","n","o","p","q","r","s","t","u","v","w","x","y","z">> (* abcdefghijklmnopqrstuvwxyz *)

UpperAlpha == <<"A","B","C","D","E","F","G","H","I","J","K","L","M","N","O","P","Q","R","S","T","U","V","W","X","Y","Z">> (* ABCDEFGHIJKLMNOPQRSTUVWXYZ *)

Digits == <<"0","1","2","3","4","5","6","7","8","9">> (* 0123456789 *)

Range(s) == {s[i] : i \in 1..Len(s)}

\* [a-zA-Z] of the regular expression
Letters == Range(LowerAlpha) \cup Range(UpperAlpha)

\* the letters beyond ASCII whose lowercase is one other letter:
\* E acute, N tilde, I diaeresis, U diaeresis, Greek alpha
UpperBeyondAscii == <<"U+00C9", "U+00D1", "U+00CF", "U+00DC", "U+0391">>

LowerBeyondAscii == <<"U+00E9", "U+00F1", "U+00EF", "U+00FC", "U+03B1">>

\* sharp s, final and non-final small sigma; capital sigma, the Kelvin sign (lowers to
\* "k"), capital I with dot above (lowers to "i" and U+0307)
OtherLetters == {"U+00DF", "U+03C2", "U+03C3", "U+03A3", "U+212A", "U+0130"}

\* the characters with the Cased property
CasedChars == Letters \cup Range(UpperBeyondAscii) \cup Range(LowerBeyondAscii) \cup OtherLetters

\* the characters with the Case_Ignorable property: the ASCII ones (the backquote is
\* written U+0060), the combining dot above, the right single quotation mark
CaseIgnorableChars == {"'", ".", ":", "^", "U+0060", "U+0307", "U+2019"}

\* \w of a str pattern: the underscore and every alphanumeric character, here also
\* the Arabic-Indic digit three, superscript two and the CJK ideograph U+4E2D
WordChars ==
    Letters \cup Range(Digits) \cup {"_"}
    \cup Range(UpperBeyondAscii) \cup Range(LowerBeyondAscii) \cup OtherLetters
    \cup {"U+0663", "U+00B2", "U+4E2D"}

\* a lone surrogate: a legal character of a str that UTF-8 does not encode
Surrogates == {"U+DC80"}

\* [a-zA-Z] of the regular expression
IsLetter(c) == c \in Letters

\* \w of the regular expression
IsWordChar(c) == c \in WordChars

\* the lowercase letter of each uppercase letter with a one-letter lowercase
ToLower ==
    [c \in Range(UpperAlpha) \cup Range(UpperBeyondAscii) |->
        IF c \in Range(UpperAlpha)
        THEN LowerAlpha[CHOOSE i \in 1..Len(UpperAlpha) : UpperAlpha[i] = c]
        ELSE LowerBeyondAscii[CHOOSE i \in 1..Len(UpperBeyondAscii) : UpperBeyondAscii[i] = c]]

\* whether the capital sigma at position i lowers to the final sigma: the nearest
\* character before it that is not case-ignorable is cased, and the nearest one
\* after it that is not case-ignorable, if any, is not cased
FinalSigma(text, i) ==
    LET before == {j \in 1..(i - 1) : text[j] \notin CaseIgnorableChars}
        after  == {j \in (i + 1)..Len(text) : text[j] \notin CaseIgnorableChars}
    IN  /\ before # {}
        /\ text[CHOOSE j \in before : \A k \in before : k <= j] \in CasedChars
        /\ \/ after = {}
           \/ text[CHOOSE j \in after : \A k \in after : j <= k] \notin CasedChars

\* the lowercase of the character at position i: one character, or two
LowerChar(text, i) ==
    LET c == text[i]
    IN  IF c \in DOMAIN ToLower THEN <<ToLower[c]>>
        ELSE IF c = "U+212A" THEN <<"k">>
        ELSE IF c = "U+0130" THEN <<"i", "U+0307">>
        ELSE IF c = "U+03A3" THEN <<IF FinalSigma(text, i) THEN "U+03C2" ELSE "U+03C3">>
        ELSE <<c>>

\* the lowercase mappings of the characters first..last of the text, concatenated
\* (by halves, which keeps the evaluation shallow on long texts)
RECURSIVE lower_range(_, _, _)
lower_range(text, first, last) ==
    IF first > last THEN <<>>
    ELSE IF first = last THEN LowerChar(text, first)
    ELSE LET middle == (first + last) \div 2
         IN  lower_range(text, first, middle) \o lower_range(text, middle + 1, last)

\* str.lower()
lower(text) == lower_range(text, 1, Len(text))

\* whether text.encode('utf-8') succeeds
Encodable(text) == \A i \in 1..Len(text) : text[i] \notin Surrogates

\* Python's `needle in hay` on two str
Contains(hay, needle) ==
    \E i \in 1..(Len(hay) - Len(needle) + 1) :
        SubSeq(hay, i, i + Len(needle) - 1) = needle

\* str.replace(old, new) for a one-character old and new
replace(text, old, new) == [i \in 1..Len(text) |-> IF text[i] = old THEN new ELSE text[i]]

\* text.split('.')[0]: the segment before the first '.', the whole text when there is none
split_first(text) ==
    IF \E i \in 1..Len(text) : text[i] = "."
    THEN SubSeq(text, 1, (CHOOSE i \in 1..Len(text) :
                             text[i] = "." /\ \A j \in 1..(i - 1) : text[j] # ".") - 1)
    ELSE text

\* the slice s[:n]
slice_to(s, n) == SubSeq(s, 1, IF Len(s) < n THEN Len(s) ELSE n)

(***************************************************************************)
(* classify_and_summarize_email                                            *)
(***************************************************************************)
categories == << <<"P","r","o","d","u","c","t"," ","S","u","p","p","o","r","t">> (* Product Support *), <<"B","i","l","l","i","n","g">> (* Billing *), <<"G","e","n","e","r","a","l"," ","I","n","q","u","i","r","y">> (* General Inquiry *) >>

ProductSupportTerms ==
    << <<"b","u","g">> (* bug *), <<"e","r","r","o","r">> (* error *), <<"n","o","t"," ","w","o","r","k","i","n","g">> (* not working *), <<"b","r","o","k","e","n">> (* broken *), <<"c","r","a","s","h">> (* crash *),
       <<"i","s","s","u","e">> (* issue *), <<"p","r","o","b","l","e","m">> (* problem *), <<"f","e","a","t","u","r","e">> (* feature *), <<"h","o","w"," ","t","o">> (* how to *) >>

BillingTerms ==
    << <<"b","i","l","l">> (* bill *), <<"p","a","y","m","e","n","t">> (* payment *), <<"c","h","a","r","g","e">> (* charge *), <<"i","n","v","o","i","c","e">> (* invoice *), <<"r","e","f","u","n","d">> (* refund *),
       <<"s","u","b","s","c","r","i","p","t","i","o","n">> (* subscription *), <<"p","r","i","c","i","n","g">> (* pricing *), <<"c","o","s","t">> (* cost *) >>

\* any(word in email_lower for word in terms)
any_in(terms, email_lower) == \E k \in 1..Len(terms) : Contains(email_lower, terms[k])

\* a variant whose chain tests the Billing terms first
classify_billing_first(email_content) ==
    LET email_lower == lower(email_content)
    IN  IF any_in(BillingTerms, email_lower) THEN categories[2]
        ELSE IF any_in(ProductSupportTerms, email_lower) THEN categories[1]
        ELSE categories[3]

\* the if / elif / else chain
classify(email_content) ==
    LET email_lower == lower(email_content)
    IN  IF any_in(ProductSupportTerms, email_lower) THEN categories[1]
        ELSE IF any_in(BillingTerms, email_lower) THEN categories[2]
        ELSE categories[3]

FirstSentenceLen == 100

\* a variant that keeps the whole first segment, without the [:100] slice
summarize_uncut(email_content, sender, category) ==
    <<"C","u","s","t","o","m","e","r"," ">> (* Customer  *) \o sender \o <<" ","n","e","e","d","s"," ","h","e","l","p"," ","w","i","t","h"," ">> (*  needs help with  *) \o lower(category)
    \o <<":"," ">> (* :  *) \o split_first(email_content) \o <<".",".",".">> (* ... *)

summarize(email_content, sender, category) ==
    LET first_sentence == slice_to(split_first(email_content), FirstSentenceLen)
    IN  <<"C","u","s","t","o","m","e","r"," ">> (* Customer  *) \o sender \o <<" ","n","e","e","d","s"," ","h","e","l","p"," ","w","i","t","h"," ">> (*  needs help with  *) \o lower(category)
        \o <<":"," ">> (* :  *) \o first_sentence \o <<".",".",".">> (* ... *)

classify_and_summarize_email(email_content, sender) ==
    LET category == classify(email_content)
    IN  <<category, summarize(email_content, sender, category)>>

(***************************************************************************)
(* extract_keywords                                                        *)
(***************************************************************************)
stop_words ==
    { <<"t","h","e">> (* the *), <<"a">>, <<"a","n">> (* an *), <<"a","n","d">> (* and *), <<"o","r">> (* or *), <<"b","u","t">> (* but *), <<"i","n">> (* in *), <<"o","n">> (* on *), <<"a","t">> (* at *),
      <<"t","o">> (* to *), <<"f","o","r">> (* for *), <<"o","f">> (* of *), <<"w","i","t","h">> (* with *), <<"b","y">> (* by *), <<"i","s">> (* is *), <<"a","r","e">> (* are *), <<"w","a","s">> (* was *),
      <<"w","e","r","e">> (* were *), <<"b","e">> (* be *), <<"b","e","e","n">> (* been *), <<"h","a","v","e">> (* have *), <<"h","a","s">> (* has *), <<"h","a","d">> (* had *), <<"w","i","l","l">> (* will *),
      <<"w","o","u","l","d">> (* would *), <<"c","o","u","l","d">> (* could *), <<"s","h","o","u","l","d">> (* should *), <<"m","a","y">> (* may *), <<"m","i","g","h","t">> (* might *), <<"c","a","n">> (* can *), <<"i">>,
      <<"y","o","u">> (* you *), <<"h","e">> (* he *), <<"s","h","e">> (* she *), <<"i","t">> (* it *), <<"w","e">> (* we *), <<"t","h","e","y">> (* they *), <<"m","y">> (* my *), <<"y","o","u","r">> (* your *),
      <<"h","i","s">> (* his *), <<"h","e","r">> (* her *), <<"o","u","r">> (* our *), <<"t","h","e","i","r">> (* their *) }

MinKeywordLen == 3

\* \b before position p (1 <= p <= Len(t) + 1): exactly one neighbour is a word character
WordBoundary(t, p) ==
    LET before == p > 1 /\ IsWordChar(t[p - 1])
        after  == p <= Len(t) /\ IsWordChar(t[p])
    IN  before # after

\* the position after the longest run of letters starting at p
RECURSIVE RunEnd(_, _)
RunEnd(t, p) == IF p <= Len(t) /\ IsLetter(t[p]) THEN RunEnd(t, p + 1) ELSE p

\* [a-zA-Z]+\b from p: the greedy end, then shorter ends while \b fails; 0 for no match
MatchEnd(t, p) ==
    LET ends == {q \in (p + 1)..RunEnd(t, p) : WordBoundary(t, q)}
    IN  IF ends = {} THEN 0 ELSE CHOOSE q \in ends : \A r \in ends : r <= q

\* re.findall(r'\b[a-zA-Z]+\b', t), scanning from position p
RECURSIVE findall_from(_, _)
findall_from(t, p) ==
    IF p > Len(t) THEN <<>>
    ELSE IF ~WordBoundary(t, p) THEN findall_from(t, p + 1)
    ELSE LET q == MatchEnd(t, p)
         IN  IF q = 0 THEN findall_from(t, p + 1)
             ELSE <<SubSeq(t, p, q - 1)>> \o findall_from(t, q)

\* a variant for the pattern [a-zA-Z]+ without the two \b: every maximal run of letters
RECURSIVE findall_runs_from(_, _)
findall_runs_from(t, p) ==
    IF p > Len(t) THEN <<>>
    ELSE IF ~IsLetter(t[p]) THEN findall_runs_from(t, p + 1)
    ELSE <<SubSeq(t, p, RunEnd(t, p) - 1)>> \o findall_runs_from(t, RunEnd(t, p))

findall_without_boundaries(t) == findall_runs_from(t, 1)

findall(t) == findall_from(t, 1)

extract_keywords(text) ==
    SelectSeq(findall(lower(text)), LAMBDA word : Len(word) > MinKeywordLen /\ word \notin stop_words)

(***************************************************************************)
(* process_email                                                           *)
(***************************************************************************)
\* a decimal rendering of n on exactly `width` digits, zero padded
RECURSIVE zero_padded(_, _)
zero_padded(n, width) ==
    IF width = 0 THEN <<>> ELSE zero_padded(n \div 10, width - 1) \o <<Digits[(n % 10) + 1]>>

\* datetime.now().isoformat(), for a reading of `now` microseconds after
\* 2026-10-31 03:01:00 within that minute: the fraction is left out when it is zero
isoformat(now) ==
    <<"2","0","2","6","-","1","0","-","3","1","T","0","3",":","0","1",":">> (* 2026-10-31T03:01: *) \o zero_padded(now \div 1000000, 2)
    \o (IF now % 1000000 = 0 THEN <<>> ELSE <<".">> \o zero_padded(now % 1000000, 6))

\* a variant without the replace(' ', '-')
channel_of_unhyphenated(category) == <<"#">> \o lower(category)

\* f"#{category.lower().replace(' ', '-')}"
channel_of(category) == <<"#">> \o replace(lower(category), " ", "-")

\* the keys process_email reads, in the order it reads them
required_keys == <<"sender", "subject", "content">>

\* a variant that analyses subject and content joined without the space
processed_email_record_unspaced(email_data, now) ==
    LET full_content == email_data.subject \o email_data.content
        cs           == classify_and_summarize_email(full_content, email_data.sender)
    IN  [timestamp |-> isoformat(now),
         sender    |-> email_data.sender,
         subject   |-> email_data.subject,
         category  |-> cs[1],
         summary   |-> cs[2],
         keywords  |-> extract_keywords(full_content),
         channel   |-> channel_of(cs[1])]

\* the dict built at lines 65-73 from a RawEmail holding all three keys
processed_email_record(email_data, now) ==
    LET sender       == email_data.sender
        subject      == email_data.subject
        content      == email_data.content
        full_content == subject \o <<" ">> \o content
        cs           == classify_and_summarize_email(full_content, sender)
        keywords     == extract_keywords(full_content)
    IN  [timestamp |-> isoformat(now),
         sender    |-> sender,
         subject   |-> subject,
         category  |-> cs[1],
         summary   |-> cs[2],
         keywords  |-> keywords,
         channel   |-> channel_of(cs[1])]

\* a variant that reads the keys with email_data.get(key, '')
process_email_with_defaults(email_data, now) ==
    LET filled == [k \in {"sender", "subject", "content"} |->
                      IF k \in DOMAIN email_data THEN email_data[k] ELSE <<>>]
    IN  /\ processed_emails' = Append(processed_emails, processed_email_record(filled, now))
        /\ ret' = [op |-> "process_email", value |-> processed_emails'[Len(processed_emails')]]
        /\ raw_inputs' = Append(raw_inputs, email_data)
        /\ clock_reads' = Append(clock_reads, now)
        /\ UNCHANGED <<csvfile, jsonfile>>

\* a variant that stamps every record with the time of the first one
process_email_stamp_once(email_data, now) ==
    IF \E k \in 1..Len(required_keys) : required_keys[k] \notin DOMAIN email_data
    THEN /\ ret' = [op |-> "process_email", raised |-> "KeyError", key |-> "sender"]
         /\ UNCHANGED <<processed_emails, csvfile, jsonfile, raw_inputs, clock_reads>>
    ELSE /\ processed_emails' =
                Append(processed_emails,
                       [processed_email_record(email_data, now) EXCEPT !.timestamp =
                           IF processed_emails = <<>> THEN @ ELSE processed_emails[1].timestamp])
         /\ ret' = [op |-> "process_email", value |-> processed_emails'[Len(processed_emails')]]
         /\ raw_inputs' = Append(raw_inputs, email_data)
         /\ clock_reads' = Append(clock_reads, now)
         /\ UNCHANGED <<csvfile, jsonfile>>

\* email_data[key] of an absent key raises KeyError before anything is built
process_email(email_data, now) ==
    IF \E k \in 1..Len(required_keys) : required_keys[k] \notin DOMAIN email_data
    THEN /\ ret' = [op |-> "process_email", raised |-> "KeyError",
                    key |-> required_keys[CHOOSE k \in 1..Len(required_keys) :
                               /\ required_keys[k] \notin DOMAIN email_data
                               /\ \A j \in 1..(k - 1) : required_keys[j] \in DOMAIN email_data]]
         /\ UNCHANGED <<processed_emails, csvfile, jsonfile, raw_inputs, clock_reads>>
    ELSE /\ processed_emails' = Append(processed_emails, processed_email_record(email_data, now))
         /\ ret' = [op |-> "process_email", value |-> processed_emails'[Len(processed_emails')]]
         /\ raw_inputs' = Append(raw_inputs, email_data)
         /\ clock_reads' = Append(clock_reads, now)
         /\ UNCHANGED <<csvfile, jsonfile>>

(***************************************************************************)
(* send_slack_alert: prints the alert and returns the message; the print   *)
(* of the summary or of the sender raises when the text cannot be encoded  *)
(* and the standard output is strict.  The log and the files are untouched.*)
(***************************************************************************)
alert_message(processed_email) ==
    <<"U+1F6A8">> \o <<" ","N","e","w"," ">> (*  New  *) \o processed_email.category \o <<" ","E","m","a","i","l","\n">> (*  Email\n *)
    \o <<"F","r","o","m",":"," ">> (* From:  *) \o processed_email.sender \o <<"\n">>
    \o <<"S","u","m","m","a","r","y",":"," ">> (* Summary:  *) \o processed_email.summary \o <<"\n">>
    \o <<"C","h","a","n","n","e","l",":"," ">> (* Channel:  *) \o processed_email.channel

send_slack_alert(processed_email, stdout_strict) ==
    /\ ret' = IF stdout_strict /\ ~(Encodable(processed_email.summary) /\ Encodable(processed_email.sender))
              THEN [op |-> "send_slack_alert", raised |-> "UnicodeEncodeError"]
              ELSE [op |-> "send_slack_alert", value |-> alert_message(processed_email)]
    /\ UNCHANGED <<processed_emails, csvfile, jsonfile, raw_inputs, clock_reads>>

(***************************************************************************)
(* generate_keyword_analytics                                              *)
(***************************************************************************)
TopN == 5

\* all_keywords of one category: extend() over the category's emails in log order
RECURSIVE all_keywords(_, _)
all_keywords(emails, category) ==
    IF emails = <<>> THEN <<>>
    ELSE (IF Head(emails).category = category THEN Head(emails).keywords ELSE <<>>)
         \o all_keywords(Tail(emails), category)

\* Counter(words): the distinct words in order of first insertion, each with its count
RECURSIVE Counter(_)
Counter(words) ==
    IF words = <<>> THEN <<>>
    ELSE LET counted == Counter(SubSeq(words, 1, Len(words) - 1))
             word    == words[Len(words)]
         IN  IF \E k \in 1..Len(counted) : counted[k][1] = word
             THEN [k \in 1..Len(counted) |->
                      IF counted[k][1] = word THEN <<word, counted[k][2] + 1>> ELSE counted[k]]
             ELSE Append(counted, <<word, 1>>)

\* a variant that is not stable: among equal counts the last inserted comes first
RECURSIVE sorted_by_count_unstable(_)
sorted_by_count_unstable(items) ==
    IF items = <<>> THEN <<>>
    ELSE LET first == CHOOSE k \in 1..Len(items) :
                         /\ \A j \in 1..Len(items) : items[j][2] <= items[k][2]
                         /\ \A j \in (k + 1)..Len(items) : items[j][2] < items[k][2]
         IN  <<items[first]>>
             \o sorted_by_count_unstable(SubSeq(items, 1, first - 1)
                                         \o SubSeq(items, first + 1, Len(items)))

\* sorted(items, key=count, reverse=True): stable, equal counts keep their order
RECURSIVE sorted_by_count(_)
sorted_by_count(items) ==
    IF items = <<>> THEN <<>>
    ELSE LET first == CHOOSE k \in 1..Len(items) :
                         /\ \A j \in 1..Len(items) : items[j][2] <= items[k][2]
                         /\ \A j \in 1..(k - 1) : items[j][2] < items[k][2]
         IN  <<items[first]>>
             \o sorted_by_count(SubSeq(items, 1, first - 1) \o SubSeq(items, first + 1, Len(items)))

\* Counter.most_common(n)
most_common(counter, n) == slice_to(sorted_by_count(counter), n)

keyword_analytics(emails) ==
    [category \in Range(categories) |->
        LET top == most_common(Counter(all_keywords(emails, category)), TopN)
        IN  [k \in 1..Len(top) |-> top[k][1]]]

generate_keyword_analytics ==
    /\ ret' = [op |-> "generate_keyword_analytics", value |-> keyword_analytics(processed_emails)]
    /\ UNCHANGED <<processed_emails, csvfile, jsonfile, raw_inputs, clock_reads>>

(***************************************************************************)
(* save_to_csv, save_to_json                                               *)
(*                                                                         *)
(* A file is absent or holds content.  A CSV file's content is its header  *)
(* row and its data rows, each row the list of its cells.  A JSON file's   *)
(* content is the array of objects written; when the dump broke off, the   *)
(* file is not a complete document: after the objects written in full it   *)
(* holds the fields of the object being written and the key whose value    *)
(* was to come.                                                            *)
(*                                                                         *)
(* Both open the file with mode 'w', which truncates it, and encode what   *)
(* they write as UTF-8.  The CSV writer writes one row at a time; the JSON *)
(* encoder writes key by key.  A value that cannot be encoded raises       *)
(* UnicodeEncodeError at its write; what was written before stays in the   *)
(* file, which the with statement closes.                                  *)
(***************************************************************************)
fieldnames == <<"timestamp", "sender", "subject", "category", "summary", "keywords", "channel">>

\* ', '.join(words)
RECURSIVE join(_)
join(words) ==
    IF words = <<>> THEN <<>>
    ELSE IF Len(words) = 1 THEN words[1]
    ELSE words[1] \o <<","," ">> (* ,  *) \o join(Tail(words))

\* DictWriter.writerow(email_copy): one cell per fieldname, keywords joined
csv_row(email) ==
    LET email_copy == [email EXCEPT !.keywords = join(email.keywords)]
    IN  [k \in 1..Len(fieldnames) |-> email_copy[fieldnames[k]]]

\* the row of cells encodes as UTF-8
row_encodes(row) == \A k \in 1..Len(row) : Encodable(row[k])

\* the number of leading rows written before a row fails to encode
rows_written(rows) ==
    IF \A i \in 1..Len(rows) : row_encodes(rows[i]) THEN Len(rows)
    ELSE (CHOOSE i \in 1..Len(rows) :
            ~row_encodes(rows[i]) /\ \A j \in 1..(i - 1) : row_encodes(rows[j])) - 1

\* a variant that joins the keywords of the log's own records instead of a copy's
save_to_csv_in_place ==
    IF processed_emails = <<>>
    THEN /\ ret' = [op |-> "save_to_csv"]
         /\ UNCHANGED <<processed_emails, csvfile, jsonfile, raw_inputs, clock_reads>>
    ELSE LET rows == [i \in 1..Len(processed_emails) |-> csv_row(processed_emails[i])]
             n == rows_written(rows)
         IN  /\ processed_emails' = [i \in 1..Len(processed_emails) |->
                                        IF i <= n + 1
                                        THEN [processed_emails[i] EXCEPT !.keywords = join(@)]
                                        ELSE processed_emails[i]]
             /\ csvfile' = [exists |-> TRUE, header |-> fieldnames, rows |-> SubSeq(rows, 1, n)]
             /\ ret' = IF n < Len(rows)
                       THEN [op |-> "save_to_csv", raised |-> "UnicodeEncodeError"]
                       ELSE [op |-> "save_to_csv"]
             /\ UNCHANGED <<jsonfile, raw_inputs, clock_reads>>

\* a variant that opens the file for appending ('a') and has no guard for the empty log
save_to_csv_append_mode ==
    LET rows == [i \in 1..Len(processed_emails) |-> csv_row(processed_emails[i])]
        n == rows_written(rows)
    IN  /\ csvfile' = [exists |-> TRUE, header |-> fieldnames,
                       rows |-> (IF csvfile.exists THEN <<csvfile.header>> \o csvfile.rows ELSE <<>>)
                                \o SubSeq(rows, 1, n)]
        /\ ret' = IF n < Len(rows)
                  THEN [op |-> "save_to_csv", raised |-> "UnicodeEncodeError"]
                  ELSE [op |-> "save_to_csv"]
        /\ UNCHANGED <<processed_emails, jsonfile, raw_inputs, clock_reads>>

save_to_csv ==
    IF processed_emails = <<>>
    THEN /\ ret' = [op |-> "save_to_csv"]
         /\ UNCHANGED <<processed_emails, csvfile, jsonfile, raw_inputs, clock_reads>>
    ELSE LET rows == [i \in 1..Len(processed_emails) |-> csv_row(processed_emails[i])]
             n == rows_written(rows)
         IN  /\ csvfile' = [exists |-> TRUE, header |-> fieldnames, rows |-> SubSeq(rows, 1, n)]
             /\ ret' = IF n < Len(rows)
                       THEN [op |-> "save_to_csv", raised |-> "UnicodeEncodeError"]
                       ELSE [op |-> "save_to_csv"]
             /\ UNCHANGED <<processed_emails, jsonfile, raw_inputs, clock_reads>>

\* the keys of a record in the order json.dump writes them: the order in which
\* process_email inserted them
record_keys == <<"timestamp", "sender", "subject", "category", "summary", "keywords", "channel">>

\* the value of a record's key encodes as UTF-8 (the keywords are a list of texts)
value_encodes(email, key) ==
    IF key = "keywords"
    THEN \A w \in 1..Len(email.keywords) : Encodable(email.keywords[w])
    ELSE Encodable(email[key])

\* the number of leading keys of a record whose values are written before a value
\* fails to encode
keys_written(email) ==
    IF \A k \in 1..Len(record_keys) : value_encodes(email, record_keys[k]) THEN Len(record_keys)
    ELSE (CHOOSE k \in 1..Len(record_keys) :
            /\ ~value_encodes(email, record_keys[k])
            /\ \A j \in 1..(k - 1) : value_encodes(email, record_keys[j])) - 1

\* the number of leading records written in full
objects_written(emails) ==
    IF \A i \in 1..Len(emails) : keys_written(emails[i]) = Len(record_keys) THEN Len(emails)
    ELSE (CHOOSE i \in 1..Len(emails) :
            /\ keys_written(emails[i]) < Len(record_keys)
            /\ \A j \in 1..(i - 1) : keys_written(emails[j]) = Len(record_keys)) - 1

\* a complete document: the array of the records
json_document(emails) == [exists |-> TRUE, complete |-> TRUE, array |-> emails]

\* a dump that broke off in the record after the first n: that record's fields
\* written so far, then the key whose value failed to encode
json_broken_off(emails, n) ==
    LET email == emails[n + 1]
        k == keys_written(email)
    IN  [exists |-> TRUE, complete |-> FALSE, array |-> SubSeq(emails, 1, n),
         fields |-> [j \in 1..k |-> <<record_keys[j], email[record_keys[j]]>>],
         key |-> record_keys[k + 1]]

save_to_json ==
    LET n == objects_written(processed_emails)
    IN  /\ jsonfile' = IF n < Len(processed_emails)
                       THEN json_broken_off(processed_emails, n)
                       ELSE json_document(processed_emails)
        /\ ret' = IF n < Len(processed_emails)
                  THEN [op |-> "save_to_json", raised |-> "UnicodeEncodeError"]
                  ELSE [op |-> "save_to_json"]
        /\ UNCHANGED <<processed_emails, csvfile, raw_inputs, clock_reads>>

(***************************************************************************)
(* Inputs and bounds                                                       *)
(***************************************************************************)
MaxLog == 2

MaxClock == 1

MaxTextLog == 1

MaxAnalyticsLog == 4

\* datetime.now() readings, in microseconds; the wall clock may return any of
\* them at any call, so it may also step backwards
ClockReadings == {k * 500000 : k \in 0..MaxClock}

Email(sender, subject, content) == [sender |-> sender, subject |-> subject, content |-> content]

WellFormed(email_data) == \A k \in 1..Len(required_keys) : required_keys[k] \in DOMAIN email_data

\* RawEmails fed to the pipeline: two well-formed ones, the second with a subject
\* that cannot be encoded, and dicts lacking a key
SampleEmails ==
    { Email(<<"a","@","x",".","c","o","m">> (* a@x.com *), <<"L","o","g","i","n"," ","n","o","t"," ","w","o","r","k","i","n","g">> (* Login not working *), <<"I"," ","c","a","n","'","t"," ","l","o","g"," ","i","n","."," ","E","r","r","o","r",":"," ","i","n","v","a","l","i","d"," ","c","r","e","d","e","n","t","i","a","l","s",".">> (* I can't log in. Error: invalid credentials. *)),
      Email(<<"b","@","y",".","o","r","g">> (* b@y.org *), <<"R","e","f","u","n","d"," ","U+DC80"," ","r","e","q","u","e","s","t">> (* Refund \udc80 request *), <<"I"," ","w","a","s"," ","c","h","a","r","g","e","d"," ","$","9","9"," ","b","u","t"," ","e","x","p","e","c","t","e","d"," ","$","4","9"," ","r","e","f","u","n","d">> (* I was charged $99 but expected $49 refund *)),
      [subject |-> <<"R","e","f","u","n","d">> (* Refund *), content |-> <<"n","o"," ","s","e","n","d","e","r">> (* no sender *)],
      [sender |-> <<"a","@","x",".","c","o","m">> (* a@x.com *), content |-> <<"n","o"," ","s","u","b","j","e","c","t">> (* no subject *)],
      [sender |-> <<"a","@","x",".","c","o","m">> (* a@x.com *), subject |-> <<"n","o"," ","c","o","n","t","e","n","t">> (* no content *)],
      [content |-> <<"o","n","l","y"," ","c","o","n","t","e","n","t">> (* only content *)] }

\* subjects, contents and senders whose combinations exercise the text functions,
\* the last contents on characters beyond ASCII
TextSubjects == { <<>>, <<"R","e",":"," ","i","n","v","o","i","c","e">> (* Re: invoice *), <<"L","o","g","i","n"," ","n","o","t"," ","w","o","r","k","i","n","g">> (* Login not working *) }

TextContents ==
    { <<"I"," ","c","a","n","'","t"," ","l","o","g"," ","i","n","."," ","E","r","r","o","r",":"," ","i","n","v","a","l","i","d"," ","c","r","e","d","e","n","t","i","a","l","s",".">> (* I can't log in. Error: invalid credentials. *),
      <<"I"," ","w","a","s"," ","c","h","a","r","g","e","d"," ","$","9","9"," ","b","u","t"," ","e","x","p","e","c","t","e","d"," ","$","4","9"," ","r","e","f","u","n","d">> (* I was charged $99 but expected $49 refund *),
      <<"e","r","r","o","r","4","0","4"," ","p","a","g","e","_","n","o","t","_","f","o","u","n","d">> (* error404 page_not_found *),
      <<"A"," ","t","i","s","s","u","e"," ","b","o","x">> (* A tissue box *),
      <<"P","l","e","a","s","e"," ","R","E","F","U","N","D"," ","m","y"," ","P","a","y","m","e","n","t",".">> (* Please REFUND my Payment. *),
      <<>>,
      <<"W","e"," ","w","o","u","l","d"," ","l","i","k","e"," ","t","o"," ","s","c","h","e","d","u","l","e"," ","a"," ","c","a","l","l"," ","n","e","x","t"," ","w","e","e","k"," ","a","n","d"," ","d","i","s","c","u","s","s"," ","a"," ","p","o","t","e","n","t","i","a","l"," ","p","a","r","t","n","e","r","s","h","i","p"," ","o","p","p","o","r","t","u","n","i","t","y"," ","w","i","t","h"," ","y","o","u","r"," ","e","n","g","i","n","e","e","r","i","n","g"," ","t","e","a","m">> (* We would like to schedule a call next week and discuss a potential partnership opportunity with your engineering team *),
      <<"T","h","a","n","k","s","\n","S","e","e"," ","a","t","t","a","c","h","e","d","."," ","B","y","e">> (* Thanks\nSee attached. Bye *),
      <<"c","o","s","t","l","y"," ","2","f","a"," ","s","e","t","u","p"," ","v","2">> (* costly 2fa setup v2 *),
      <<"s","h","o","u","l","d"," ","w","o","u","l","d"," ","t","h","e","i","r"," ","t","h","e","y"," ","t","h","e","m">> (* should would their they them *),
      <<"d","a","t","a"," ","d","a","t","a"," ","d","a","t","a","4"," ","_","d","a","t","a"," ","d","a","t","a","_"," ","4","d","a","t","a"," ","d","a","t","a">> (* data data data4 _data data_ 4data data *),
      <<".","s","t","a","r","t","s"," ","w","i","t","h"," ","d","o","t">> (* .starts with dot *),
      <<"n","o","t"," "," ","w","o","r","k","i","n","g">> (* not  working *),
      <<"a","b","c","d"," ","a","b","c"," ","u","s","e","r","s","'"," ","w","e","l","l","-","k","n","o","w","n">> (* abcd abc users' well-known *),
      <<"U","P","P","E","R"," ","l","o","w","e","r"," ","M","i","X","e","D"," ","U","p","p","e","r">> (* UPPER lower MiXeD Upper *),
      <<"J","A","L","A","P","E","U+00D1","O"," ","r","e","c","i","p","e"," ","t","o","d","a","y">> (* JALAPE\u00d1O recipe today *),
      <<"B","R","O","U+212A","E","N"," ","s","c","r","e","e","n">> (* BRO\u212aEN screen *),
      <<"n","a","U+00EF","v","e"," ","r","U+00E9","s","u","m","U+00E9"," ","a","t","t","a","c","h","e","d"," ","e","r","r","o","r","U+0663"," ","p","a","g","e">> (* na\u00efve r\u00e9sum\u00e9 attached error\u0663 page *),
      <<"U+0130","s","t","a","n","b","u","l"," ","P","A","Y","M","E","N","T","U+03A3"," ","U+03A3","U+0391","U+03A3">> (* \u0130stanbul PAYMENT\u03a3 \u03a3\u0391\u03a3 *),
      <<"p","r","i","c","e","U+00B2"," ","U+4E2D","t","e","x","t"," ","U+DC80"," ","g","a","p">> (* price\u00b2 \u4e2dtext \udc80 gap *) }

TextSenders == { <<"a","@","x",".","c","o","m">> (* a@x.com *), <<"j","o","h","n",".","d","o","e","@","e","x","a","m","p","l","e",".","c","o","m">> (* john.doe@example.com *) }

\* every subject with every content for the first sender, every content alone for the others
TextEmails ==
    { email_data \in { Email(sender, subject, content) :
                         sender \in TextSenders, subject \in TextSubjects, content \in TextContents } :
        email_data.sender = <<"a","@","x",".","c","o","m">> (* a@x.com *) \/ email_data.subject = <<>> }

\* emails of all three categories with overlapping keywords
AnalyticsEmails ==
    { Email(<<"a","@","x",".","c","o","m">> (* a@x.com *), <<"b","u","g">> (* bug *), <<"a","l","p","h","a"," ","b","e","t","a"," ","g","a","m","m","a"," ","d","e","l","t","a">> (* alpha beta gamma delta *)),
      Email(<<"a","@","x",".","c","o","m">> (* a@x.com *), <<"c","r","a","s","h">> (* crash *), <<"d","e","l","t","a"," ","e","p","s","i","l","o","n"," ","z","e","t","a"," ","z","e","t","a">> (* delta epsilon zeta zeta *)),
      Email(<<"a","@","x",".","c","o","m">> (* a@x.com *), <<"i","s","s","u","e">> (* issue *), <<"g","a","m","m","a"," ","t","h","e","t","a"," ","k","a","p","p","a">> (* gamma theta kappa *)),
      Email(<<"b","@","y",".","o","r","g">> (* b@y.org *), <<"r","e","f","u","n","d">> (* refund *), <<"a","l","p","h","a"," ","a","l","p","h","a"," ","b","e","t","a">> (* alpha alpha beta *)),
      Email(<<"b","@","y",".","o","r","g">> (* b@y.org *), <<"p","a","y","m","e","n","t">> (* payment *), <<"b","e","t","a"," ","b","e","t","a"," ","g","a","m","m","a"," ","d","e","l","t","a"," ","e","p","s","i","l","o","n"," ","z","e","t","a">> (* beta beta gamma delta epsilon zeta *)),
      Email(<<"c","@","z",".","i","o">> (* c@z.io *), <<"h","e","l","l","o">> (* hello *), <<"h","e","l","l","o"," ","w","o","r","l","d">> (* hello world *)) }

\* what a previous run left on disk
AbsentFile == [exists |-> FALSE]

PreviousRunRecord ==
    processed_email_record(Email(<<"o","l","d","@","x",".","c","o","m">> (* old@x.com *), <<"O","l","d">> (* Old *), <<"l","e","f","t"," ","b","y"," ","a"," ","p","r","e","v","i","o","u","s"," ","r","u","n">> (* left by a previous run *)), 0)

StaleCsv == [exists |-> TRUE, header |-> fieldnames, rows |-> <<csv_row(PreviousRunRecord)>>]

StaleJson == json_document(<<PreviousRunRecord>>)

(***************************************************************************)
(* Specifications                                                          *)
(***************************************************************************)
\* __init__, in a directory that is fresh or holds a previous run's files
Init ==
    /\ processed_emails = <<>>
    /\ \E previous_run \in BOOLEAN :
          /\ csvfile = IF previous_run THEN StaleCsv ELSE AbsentFile
          /\ jsonfile = IF previous_run THEN StaleJson ELSE AbsentFile
    /\ ret = [op |-> "__init__"]
    /\ raw_inputs = <<>>
    /\ clock_reads = <<>>

ProcessStep ==
    \E email_data \in SampleEmails, now \in ClockReadings :
        /\ Len(processed_emails) < MaxLog
        /\ process_email(email_data, now)

\* the standard output's error handler is strict or not
AlertStep ==
    \E i \in 1..Len(processed_emails), stdout_strict \in BOOLEAN :
        send_slack_alert(processed_emails[i], stdout_strict)

Next ==
    \/ ProcessStep
    \/ AlertStep
    \/ generate_keyword_analytics
    \/ save_to_csv
    \/ save_to_json

Spec == Init /\ [][Next]_vars

\* the text functions on many texts; the clock advances by one reading per call
ProcessTextStep ==
    \E email_data \in TextEmails :
        /\ Len(processed_emails) < MaxTextLog
        /\ process_email(email_data, Len(processed_emails) * 500000)

NextText == ProcessTextStep

SpecText == Init /\ [][NextText]_vars

\* the aggregation over logs mixing the three categories
ProcessAnalyticsStep ==
    \E email_data \in AnalyticsEmails :
        /\ Len(processed_emails) < MaxAnalyticsLog
        /\ process_email(email_data, Len(processed_emails) * 500000)

NextAnalytics ==
    \/ ProcessAnalyticsStep
    \/ generate_keyword_analytics

SpecAnalytics == Init /\ [][NextAnalytics]_vars

(***************************************************************************)
(* Vocabulary of the properties                                            *)
(***************************************************************************)
IsPrefix(s, t) == Len(s) <= Len(t) /\ SubSeq(t, 1, Len(s)) = s

Min(a, b) == IF a < b THEN a ELSE b

\* needle occurs in hay as a contiguous substring
Occurs(needle, hay) ==
    \E i \in 0..(Len(hay) - Len(needle)) : \A k \in 1..Len(needle) : hay[i + k] = needle[k]

\* the text process_email analyses for the i-th record: subject, one space, content
AnalysedText(i) == raw_inputs[i].subject \o <<" ">> \o raw_inputs[i].content

Raised == ret.op = "process_email" /\ "raised" \in DOMAIN ret

\* comparison of two timestamps as strings, character by character
CharOrder == <<"-",".","0","1","2","3","4","5","6","7","8","9",":","T">> (* -.0123456789:T *)

Ord(c) == CHOOSE k \in 1..Len(CharOrder) : CharOrder[k] = c

RECURSIVE StrLeq(_, _)
StrLeq(s, t) ==
    IF s = <<>> THEN TRUE
    ELSE IF t = <<>> THEN FALSE
    ELSE IF Head(s) = Head(t) THEN StrLeq(Tail(s), Tail(t))
    ELSE Ord(Head(s)) < Ord(Head(t))

(***************************************************************************)
(* C1: the TriageLog is append-only.  In every step the old log is a       *)
(* prefix of the new one; a successful process_email extends it by exactly *)
(* the record it returns, placed at the end; a failed process_email and    *)
(* every other operation leave the log as it was.                          *)
(***************************************************************************)
C1_AppendOnly ==
    [][ /\ IsPrefix(processed_emails, processed_emails')
        /\ (ret'.op = "process_email" /\ "value" \in DOMAIN ret'
              => processed_emails' = Append(processed_emails, ret'.value))
        /\ (ret'.op # "process_email" \/ "raised" \in DOMAIN ret'
              => processed_emails' = processed_emails) ]_vars

\* a log of two records after which a sink has been written
C1_Witness ==
    /\ Len(processed_emails) = 2
    /\ ret.op = "save_to_csv"
    /\ csvfile.exists /\ Len(csvfile.rows) = 2

\* what the CSV file holds for a log: the header row, then one row per record
ExpectedCsvRow(email) ==
    <<email.timestamp, email.sender, email.subject, email.category, email.summary,
      join(email.keywords), email.channel>>

ExpectedCsv(log) ==
    [exists |-> TRUE,
     header |-> <<"timestamp", "sender", "subject", "category", "summary", "keywords", "channel">>,
     rows   |-> [i \in 1..Len(log) |-> ExpectedCsvRow(log[i])]]

\* the record has a text with a surrogate, which UTF-8 cannot encode
HasSurrogate(text) == \E k \in 1..Len(text) : text[k] = "U+DC80"

Unencodable(email) ==
    HasSurrogate(email.sender) \/ HasSurrogate(email.subject) \/ HasSurrogate(email.summary)

\* the records of the log that precede its first unencodable record
BeforeFirstUnencodable(log) ==
    LET n == CHOOSE n \in 0..Len(log) :
                /\ \A i \in 1..n : ~Unencodable(log[i])
                /\ n = Len(log) \/ Unencodable(log[n + 1])
    IN  SubSeq(log, 1, n)

(***************************************************************************)
(* C5, as stated: after save_to_csv the file holds the header row and one  *)
(* row per record of the log, for every log, the empty one included.       *)
(***************************************************************************)
C5_Original == ret.op = "save_to_csv" => csvfile = ExpectedCsv(processed_emails)

(***************************************************************************)
(* C5, amended: save_to_csv on a non-empty log whose records can all be    *)
(* encoded overwrites the file with the header row followed by one row per *)
(* record in log order, nothing of the previous content remaining.  On the *)
(* empty log it returns without touching the file, which stays absent or   *)
(* keeps its previous content.  On a log with a record that cannot be      *)
(* encoded it raises UnicodeEncodeError, and the file, its previous        *)
(* content gone, holds the header row and the rows of the records before   *)
(* the first such record.                                                  *)
(***************************************************************************)
C5_Amended ==
    [][ ret'.op = "save_to_csv" =>
          IF processed_emails = <<>>
          THEN csvfile' = csvfile /\ "raised" \notin DOMAIN ret'
          ELSE IF \A i \in 1..Len(processed_emails) : ~Unencodable(processed_emails[i])
          THEN csvfile' = ExpectedCsv(processed_emails) /\ "raised" \notin DOMAIN ret'
          ELSE /\ csvfile' = ExpectedCsv(BeforeFirstUnencodable(processed_emails))
               /\ "raised" \in DOMAIN ret' /\ ret'.raised = "UnicodeEncodeError" ]_vars

\* a previous run's file overwritten by a log of two records
C5_Witness ==
    /\ ret.op = "save_to_csv" /\ "raised" \notin DOMAIN ret
    /\ Len(processed_emails) = 2
    /\ jsonfile = StaleJson
    /\ csvfile = ExpectedCsv(processed_emails)
    /\ csvfile # StaleCsv

(***************************************************************************)
(* C6: a RawEmail lacking sender, subject or content makes process_email   *)
(* raise; no record is ever built from such an email, and the failed call  *)
(* leaves the log, the files and the histories exactly as they were.       *)
(***************************************************************************)
C6_MalformedFails ==
    [][ /\ Len(raw_inputs') = Len(processed_emails')
        /\ \A i \in 1..Len(raw_inputs') :
              /\ WellFormed(raw_inputs'[i])
              /\ processed_emails'[i].sender = raw_inputs'[i].sender
              /\ processed_emails'[i].subject = raw_inputs'[i].subject
        /\ (ret'.op = "process_email" /\ "raised" \in DOMAIN ret'
              => /\ ret'.raised = "KeyError"
                 /\ UNCHANGED <<processed_emails, csvfile, jsonfile, raw_inputs, clock_reads>>) ]_vars

\* a call has just failed on a log that already holds a record
C6_Witness ==
    /\ Raised
    /\ ret.key = "subject"
    /\ Len(processed_emails) = 1

(***************************************************************************)
(* C8, as stated: whatever the clock returns, the timestamps of the log    *)
(* are non-decreasing in log order.                                        *)
(***************************************************************************)
C8_Original ==
    \A i, j \in 1..Len(processed_emails) :
        i < j => StrLeq(processed_emails[i].timestamp, processed_emails[j].timestamp)

(***************************************************************************)
(* C8, amended: each record carries the clock reading of its own call, so  *)
(* two timestamps of the log compare exactly as the two readings did: the  *)
(* earlier record's timestamp is <= the later one's if and only if the     *)
(* clock had not stepped backwards between the two calls.                  *)
(***************************************************************************)
C8_Amended ==
    /\ Len(clock_reads) = Len(processed_emails)
    /\ \A i, j \in 1..Len(processed_emails) :
          i < j => ( StrLeq(processed_emails[i].timestamp, processed_emails[j].timestamp)
                     <=> clock_reads[i] <= clock_reads[j] )

\* two records, the second stamped later than the first
C8_Witness ==
    /\ Len(processed_emails) = 2
    /\ clock_reads[1] < clock_reads[2]
    /\ processed_emails[1].timestamp # processed_emails[2].timestamp
    /\ StrLeq(processed_emails[1].timestamp, processed_emails[2].timestamp)

\* some term of the list is a substring of the lowercased text
HasTerm(terms, text) == \E k \in 1..Len(terms) : Occurs(terms[k], lower(text))

(***************************************************************************)
(* C2: classification is first-match-wins on substrings of the lowercased  *)
(* text.  A text holding a Product-Support term is Product Support, also   *)
(* when it holds a Billing term; a record is Billing exactly when its text *)
(* holds no Product-Support term and some Billing term; a text holding     *)
(* neither is General Inquiry.                                             *)
(***************************************************************************)
C2_FirstMatchWins ==
    \A i \in 1..Len(processed_emails) :
        LET text     == AnalysedText(i)
            category == processed_emails[i].category
        IN  /\ HasTerm(ProductSupportTerms, text) => category = <<"P","r","o","d","u","c","t"," ","S","u","p","p","o","r","t">> (* Product Support *)
            /\ category = <<"B","i","l","l","i","n","g">> (* Billing *)
                 <=> ~HasTerm(ProductSupportTerms, text) /\ HasTerm(BillingTerms, text)
            /\ ~HasTerm(ProductSupportTerms, text) /\ ~HasTerm(BillingTerms, text)
                 => category = <<"G","e","n","e","r","a","l"," ","I","n","q","u","i","r","y">> (* General Inquiry *)

\* a text with a Product-Support term and a Billing term is Product Support,
\* here through "issue" inside "tissue" and "invoice" of the subject
C2_Witness ==
    \E i \in 1..Len(processed_emails) :
        /\ Occurs(<<"t","i","s","s","u","e">> (* tissue *), lower(AnalysedText(i)))
        /\ Occurs(<<"i","n","v","o","i","c","e">> (* invoice *), lower(AnalysedText(i)))
        /\ processed_emails[i].category = <<"P","r","o","d","u","c","t"," ","S","u","p","p","o","r","t">> (* Product Support *)

(***************************************************************************)
(* Keywords of a text, stated on the text: the runs of the letters a to z  *)
(* of the lowercased text that are delimited on both sides by an end of    *)
(* the text or by a character outside `joining`, in order, those of length *)
(* <= 3 and the stop words dropped.                                        *)
(***************************************************************************)
IsLowercaseWord(w) == w # <<>> /\ \A k \in 1..Len(w) : w[k] \in Range(LowerAlpha)

\* the <<first, last>> positions of the delimited runs of letters of t
DelimitedRuns(t, joining) ==
    { span \in (1..Len(t)) \X (1..Len(t)) :
        /\ span[1] <= span[2]
        /\ \A k \in span[1]..span[2] : t[k] \in Range(LowerAlpha)
        /\ span[1] = 1 \/ t[span[1] - 1] \notin joining
        /\ span[2] = Len(t) \/ t[span[2] + 1] \notin joining }

RECURSIVE InOrder(_, _)
InOrder(t, spans) ==
    IF spans = {} THEN <<>>
    ELSE LET first == CHOOSE s \in spans : \A r \in spans : s[1] <= r[1]
         IN  <<SubSeq(t, first[1], first[2])>> \o InOrder(t, spans \ {first})

KeywordsBy(text, joining) ==
    LET t == lower(text)
    IN  InOrder(t, { span \in DelimitedRuns(t, joining) :
                       /\ span[2] - span[1] + 1 > 3
                       /\ SubSeq(t, span[1], span[2]) \notin stop_words })

AsciiLetters == Range(LowerAlpha) \cup Range(UpperAlpha)

\* the letters and the digits beyond ASCII: accented and Greek letters, the sharp s,
\* the Kelvin sign, the dotted capital I, an Arabic-Indic digit, the superscript
\* two, a CJK ideograph
LettersDigitsBeyondAscii ==
    {"U+00C9", "U+00E9", "U+00D1", "U+00F1", "U+00CF", "U+00EF", "U+00DC", "U+00FC",
     "U+0391", "U+03B1", "U+03A3", "U+03C3", "U+03C2", "U+00DF", "U+212A", "U+0130",
     "U+0663", "U+00B2", "U+4E2D"}

LettersDigitsUnderscore == AsciiLetters \cup Range(Digits) \cup {"_"} \cup LettersDigitsBeyondAscii

(***************************************************************************)
(* C3, as stated: every non-letter character, digits and the underscore    *)
(* included, separates tokens, so the keywords are the maximal runs of     *)
(* letters (filtered), and the letters next to a digit are still a token.  *)
(* The letters are taken as a to z, the reading under which the most texts *)
(* agree with the statement.                                               *)
(***************************************************************************)
C3_Original ==
    \A i \in 1..Len(processed_emails) :
        processed_emails[i].keywords = KeywordsBy(AnalysedText(i), AsciiLetters)

(***************************************************************************)
(* C3, amended: a token is a run of the letters a to z of the lowercased   *)
(* text, delimited on both sides by an end of the text or by a character   *)
(* that is neither a letter nor a digit of any script nor the underscore.  *)
(* Letters that touch a digit, an underscore or a letter beyond ASCII      *)
(* (those of "error404", of "page_not_found", of "jalape\u00f1o") give no   *)
(* token at all.  The tokens of length <= 3 and the stop words are         *)
(* dropped, the rest kept in source order with duplicates.                 *)
(***************************************************************************)
C3_Amended ==
    \A i \in 1..Len(processed_emails) :
        processed_emails[i].keywords = KeywordsBy(AnalysedText(i), LettersDigitsUnderscore)

\* "error404 page_not_found" under a subject with keywords: the subject's are kept,
\* "error", "page" and "found" are not
C3_Witness ==
    \E i \in 1..Len(processed_emails) :
        /\ Occurs(<<"e","r","r","o","r","4","0","4"," ","p","a","g","e","_","n","o","t","_","f","o","u","n","d">> (* error404 page_not_found *), AnalysedText(i))
        /\ processed_emails[i].keywords = << <<"l","o","g","i","n">> (* login *), <<"w","o","r","k","i","n","g">> (* working *) >>

(***************************************************************************)
(* C7: every record's category is one of the three fixed ones and its      *)
(* channel is the one of that category: #product-support, #billing,        *)
(* #general-inquiry.                                                       *)
(***************************************************************************)
C7_ChannelOfCategory ==
    \A i \in 1..Len(processed_emails) :
        LET r == processed_emails[i]
        IN  \/ r.category = <<"P","r","o","d","u","c","t"," ","S","u","p","p","o","r","t">> (* Product Support *) /\ r.channel = <<"#","p","r","o","d","u","c","t","-","s","u","p","p","o","r","t">> (* #product-support *)
            \/ r.category = <<"B","i","l","l","i","n","g">> (* Billing *) /\ r.channel = <<"#","b","i","l","l","i","n","g">> (* #billing *)
            \/ r.category = <<"G","e","n","e","r","a","l"," ","I","n","q","u","i","r","y">> (* General Inquiry *) /\ r.channel = <<"#","g","e","n","e","r","a","l","-","i","n","q","u","i","r","y">> (* #general-inquiry *)

\* a record of the fallback category, whose name holds a space
C7_Witness ==
    \E i \in 1..Len(processed_emails) :
        /\ processed_emails[i].category = <<"G","e","n","e","r","a","l"," ","I","n","q","u","i","r","y">> (* General Inquiry *)
        /\ processed_emails[i].channel = <<"#","g","e","n","e","r","a","l","-","i","n","q","u","i","r","y">> (* #general-inquiry *)

(***************************************************************************)
(* C9: every stored keyword is made of lowercase letters only, is longer   *)
(* than 3 and is no stop word, and a record's keywords are those of its    *)
(* subject and content joined by one space.                                *)
(***************************************************************************)
C9_StoredKeywords ==
    \A i \in 1..Len(processed_emails) :
        /\ \A k \in 1..Len(processed_emails[i].keywords) :
              LET w == processed_emails[i].keywords[k]
              IN  IsLowercaseWord(w) /\ Len(w) > 3 /\ w \notin stop_words
        /\ processed_emails[i].keywords
             = extract_keywords(raw_inputs[i].subject \o <<" ">> \o raw_inputs[i].content)

\* keywords from the subject and from the content, one of them repeated
C9_Witness ==
    \E i \in 1..Len(processed_emails) :
        /\ raw_inputs[i].subject = <<"L","o","g","i","n"," ","n","o","t"," ","w","o","r","k","i","n","g">> (* Login not working *)
        /\ processed_emails[i].keywords
             = << <<"l","o","g","i","n">> (* login *), <<"w","o","r","k","i","n","g">> (* working *), <<"u","p","p","e","r">> (* upper *), <<"l","o","w","e","r">> (* lower *), <<"m","i","x","e","d">> (* mixed *), <<"u","p","p","e","r">> (* upper *) >>

(***************************************************************************)
(* The summary template, stated on the text: the segment is the longest    *)
(* prefix of the analysed text holding no '.', cut to its first 100        *)
(* characters.                                                             *)
(***************************************************************************)
SegmentBeforeDot(text) ==
    LET n == CHOOSE n \in 0..Len(text) :
                /\ \A k \in 1..n : text[k] # "."
                /\ n = Len(text) \/ text[n + 1] = "."
    IN  SubSeq(text, 1, Min(n, 100))

LowercasedCategory(category) ==
    IF category = <<"P","r","o","d","u","c","t"," ","S","u","p","p","o","r","t">> (* Product Support *) THEN <<"p","r","o","d","u","c","t"," ","s","u","p","p","o","r","t">> (* product support *)
    ELSE IF category = <<"B","i","l","l","i","n","g">> (* Billing *) THEN <<"b","i","l","l","i","n","g">> (* billing *)
    ELSE <<"g","e","n","e","r","a","l"," ","i","n","q","u","i","r","y">> (* general inquiry *)

ExpectedSummary(i) ==
    <<"C","u","s","t","o","m","e","r"," ">> (* Customer  *) \o raw_inputs[i].sender \o <<" ","n","e","e","d","s"," ","h","e","l","p"," ","w","i","t","h"," ">> (*  needs help with  *)
    \o LowercasedCategory(processed_emails[i].category) \o <<":"," ">> (* :  *)
    \o SegmentBeforeDot(AnalysedText(i)) \o <<".",".",".">> (* ... *)

HasLineBreak(s) == \E k \in 1..Len(s) : s[k] = "\n"

(***************************************************************************)
(* C10, as stated: the summary follows the template, holds no line break   *)
(* and is at most about 130 characters long.                               *)
(***************************************************************************)
C10_Original ==
    \A i \in 1..Len(processed_emails) :
        /\ processed_emails[i].summary = ExpectedSummary(i)
        /\ ~HasLineBreak(processed_emails[i].summary)
        /\ Len(processed_emails[i].summary) <= 130

(***************************************************************************)
(* C10, amended: the summary follows the template.  Its length is 31 plus  *)
(* the lengths of the sender, of the category and of the segment, so at    *)
(* most 146 plus the length of the sender (not 130); it holds a line break *)
(* exactly when the sender or the segment holds one, so it is a single     *)
(* line only for such inputs.                                              *)
(***************************************************************************)
C10_Amended ==
    \A i \in 1..Len(processed_emails) :
        LET summary == processed_emails[i].summary
            segment == SegmentBeforeDot(AnalysedText(i))
        IN  /\ summary = ExpectedSummary(i)
            /\ Len(segment) <= 100
            /\ Len(summary) = 31 + Len(raw_inputs[i].sender)
                                 + Len(processed_emails[i].category) + Len(segment)
            /\ Len(summary) <= 146 + Len(raw_inputs[i].sender)
            /\ HasLineBreak(summary) <=> HasLineBreak(raw_inputs[i].sender) \/ HasLineBreak(segment)

\* a summary whose segment was cut at 100 characters and that is longer than 130
C10_Witness ==
    \E i \in 1..Len(processed_emails) :
        /\ Len(SegmentBeforeDot(AnalysedText(i))) = 100
        /\ Len(AnalysedText(i)) > 100
        /\ Len(processed_emails[i].summary) > 130

\* the concatenation, built from the last record backwards
RECURSIVE CategoryKeywords(_, _, _)
CategoryKeywords(log, category, n) ==
    IF n = 0 THEN <<>>
    ELSE CategoryKeywords(log, category, n - 1)
         \o (IF log[n].category = category THEN log[n].keywords ELSE <<>>)

Occurrences(words, w) == Cardinality({k \in 1..Len(words) : words[k] = w})

FirstOccurrence(words, w) == CHOOSE k \in 1..Len(words) : words[k] = w /\ \A j \in 1..(k - 1) : words[j] # w

RanksBefore(words, v, w) ==
    \/ Occurrences(words, v) > Occurrences(words, w)
    \/ /\ Occurrences(words, v) = Occurrences(words, w)
       /\ FirstOccurrence(words, v) < FirstOccurrence(words, w)

IsTopFive(top, words) ==
    /\ Len(top) = Min(5, Cardinality(Range(words)))
    /\ Range(top) \subseteq Range(words)
    /\ \A k, l \in 1..Len(top) : k < l => RanksBefore(words, top[k], top[l])
    /\ \A w \in Range(words) \ Range(top) : \A k \in 1..Len(top) : RanksBefore(words, top[k], w)

(***************************************************************************)
(* C4: generate_keyword_analytics returns a mapping whose keys are exactly *)
(* the three categories; the value of a category is made of the distinct   *)
(* keywords of the concatenation, in log order, of the keyword lists of    *)
(* the category's records: the 5 most frequent ones (all of them when      *)
(* there are fewer, none for a category without records), by descending    *)
(* count, equal counts by first occurrence in the concatenation.  It is    *)
(* computed from the log as it is at the call.                             *)
(***************************************************************************)
C4_TopKeywords ==
    ret.op = "generate_keyword_analytics" =>
        /\ DOMAIN ret.value = { <<"P","r","o","d","u","c","t"," ","S","u","p","p","o","r","t">> (* Product Support *), <<"B","i","l","l","i","n","g">> (* Billing *), <<"G","e","n","e","r","a","l"," ","I","n","q","u","i","r","y">> (* General Inquiry *) }
        /\ \A category \in DOMAIN ret.value :
              IsTopFive(ret.value[category],
                        CategoryKeywords(processed_emails, category, Len(processed_emails)))

\* Product Support holds ten distinct keywords, three of them twice: those three come
\* first, in order of first occurrence, then the two earliest of the others; a category
\* without records maps to the empty list
C4_Witness ==
    /\ ret.op = "generate_keyword_analytics"
    /\ Len(processed_emails) = 3
    /\ ret.value[<<"P","r","o","d","u","c","t"," ","S","u","p","p","o","r","t">> (* Product Support *)] = << <<"g","a","m","m","a">> (* gamma *), <<"d","e","l","t","a">> (* delta *), <<"z","e","t","a">> (* zeta *), <<"a","l","p","h","a">> (* alpha *), <<"b","e","t","a">> (* beta *) >>
    /\ ret.value[<<"B","i","l","l","i","n","g">> (* Billing *)] = <<>>
    /\ ret.value[<<"G","e","n","e","r","a","l"," ","I","n","q","u","i","r","y">> (* General Inquiry *)] = <<>>

====
